---- MODULE Spec2Model ----
(***************************************************************************)
(* Model of the tokenizer (src/src/lexer.rs) and of the recursive-descent  *)
(* parser (src/src/parser.rs).                                             *)
(*                                                                         *)
(* A text is a sequence of one-character strings.  The functions of the    *)
(* source are operators that return what the function returns together    *)
(* with the state it leaves behind; a Rust panic (panic!, expect on None)  *)
(* is the outcome "panic", which ends the process.                         *)
(***************************************************************************)
EXTENDS Integers, Sequences, FiniteSets, TLC

VARIABLES input, source, current_token, pc, op, prev, result, tokens

vars == <<input, source, current_token, pc, op, prev, result, tokens>>

(***************************************************************************)
(* Bounds of the model.                                                    *)
(***************************************************************************)
\* longest enumerated text given to a Tokenizer
MaxLexLen == 4
\* longest enumerated text given to a Parser
MaxLen == 4
\* number of successive tokenize calls on one Tokenizer
MaxCalls == 6

(***************************************************************************)
(* Characters (char::is_whitespace, is_alphabetic, is_numeric on ASCII).   *)
(***************************************************************************)
Letters == {"a", "b", "c", "d", "e", "f", "g", "h", "i", "j", "k", "l", "m",
            "n", "o", "p", "q", "r", "s", "t", "u", "v", "w", "x", "y", "z"}

Digits == {"0", "1", "2", "3", "4", "5", "6", "7", "8", "9"}

Whitespace == {" ", "\t", "\n", "\r"}

is_whitespace(c) == c \in Whitespace

is_alphabetic(c) == c \in Letters

is_numeric(c) == c \in Digits

is_alphanumeric(c) == is_alphabetic(c) \/ is_numeric(c)

(***************************************************************************)
(* lexer::Token                                                            *)
(***************************************************************************)
Eof == [type |-> "Eof"]

Def == [type |-> "Def"]

Extern == [type |-> "Extern"]

Identifier(name) == [type |-> "Identifier", name |-> name]

Number(value) == [type |-> "Number", value |-> value]

Other(text) == [type |-> "Other", text |-> text]

\* the place of a token that does not exist (no call made yet, or a panic)
NoToken == [type |-> "NoToken"]

(***************************************************************************)
(* str::parse::<f64> on a run of digits with at most one '.': the value    *)
(* mant / 10^exp, in lowest terms of the power of ten (1.50 = 1.5 = 01.5). *)
(***************************************************************************)
DigitVal(c) ==
    CASE c = "0" -> 0 [] c = "1" -> 1 [] c = "2" -> 2 [] c = "3" -> 3
      [] c = "4" -> 4 [] c = "5" -> 5 [] c = "6" -> 6 [] c = "7" -> 7
      [] c = "8" -> 8 [] c = "9" -> 9

RECURSIVE Normalize(_, _)
Normalize(mant, exp) ==
    IF exp > 0 /\ mant % 10 = 0 THEN Normalize(mant \div 10, exp - 1)
    ELSE [mant |-> mant, exp |-> exp]

RECURSIVE ParseDigits(_, _, _, _)
ParseDigits(token, mant, exp, seen_point) ==
    IF token = <<>> THEN Normalize(mant, exp)
    ELSE IF Head(token) = "." THEN ParseDigits(Tail(token), mant, exp, TRUE)
    ELSE ParseDigits(Tail(token), mant * 10 + DigitVal(Head(token)),
                     IF seen_point THEN exp + 1 ELSE exp, seen_point)

parse_f64(token) == ParseDigits(token, 0, 0, FALSE)

(***************************************************************************)
(* Tokenizer::tokenize.  The Tokenizer's state is `source`, the characters *)
(* not yet consumed.  Each helper is one loop of the function.             *)
(***************************************************************************)
\* lexer.rs 34-41: the maximal alphanumeric run
RECURSIVE scan_identifier(_, _)
scan_identifier(src, token) ==
    IF src # <<>> /\ is_alphanumeric(Head(src))
    THEN scan_identifier(Tail(src), Append(token, Head(src)))
    ELSE [token |-> token, rest |-> src]

\* lexer.rs 42-46
keyword(token) ==
    IF token = <<"d", "e", "f">> THEN Def
    ELSE IF token = <<"e", "x", "t", "e", "r", "n">> THEN Extern
    ELSE Identifier(token)

\* lexer.rs 48-58: the digit / decimal point run; a second '.' panics
RECURSIVE scan_number(_, _)
scan_number(src, token) ==
    IF src = <<>> THEN [st |-> "ok", token |-> token, rest |-> src]
    ELSE IF (\E i \in 1..Len(token) : token[i] = ".") /\ Head(src) = "."
    THEN [st |-> "panic", token |-> token, rest |-> src]
    ELSE IF is_numeric(Head(src)) \/ Head(src) = "."
    THEN scan_number(Tail(src), Append(token, Head(src)))
    ELSE [st |-> "ok", token |-> token, rest |-> src]

\* skip_comment with a plausible slip: only "\n" ends a comment
RECURSIVE skip_comment_lf(_)
skip_comment_lf(src) ==
    IF src # <<>> /\ Head(src) # "\n" THEN skip_comment_lf(Tail(src))
    ELSE src

\* lexer.rs 65-71: a comment runs up to, not including, the line end
RECURSIVE skip_comment(_)
skip_comment(src) ==
    IF src # <<>> /\ Head(src) \notin {"\r", "\n"} THEN skip_comment(Tail(src))
    ELSE src

RECURSIVE tokenize(_)
tokenize(src) ==
    IF src = <<>> THEN [st |-> "tok", tok |-> Eof, rest |-> src]
    ELSE LET c == Head(src) IN
      IF is_whitespace(c) THEN tokenize(Tail(src))
      ELSE IF is_alphabetic(c) THEN
        LET s == scan_identifier(src, <<>>) IN
        [st |-> "tok", tok |-> keyword(s.token), rest |-> s.rest]
      ELSE IF is_numeric(c) THEN
        LET s == scan_number(src, <<>>) IN
        IF s.st = "panic" THEN [st |-> "panic", tok |-> NoToken, rest |-> s.rest]
        ELSE [st |-> "tok", tok |-> Number(parse_f64(s.token)), rest |-> s.rest]
      ELSE IF c = "#" THEN tokenize(skip_comment(src))
      ELSE [st |-> "tok", tok |-> Other(c), rest |-> Tail(src)]

(***************************************************************************)
(* parser::Operator, Expression, Prototype, Function                       *)
(***************************************************************************)
Operator == {"Plus", "Minus", "Multiply", "Divide"}

NumberExpression(value) == [type |-> "NumberExpression", value |-> value]

VariableExpression(name) == [type |-> "VariableExpression", name |-> name]

BinaryExpression(operator_, lhs, rhs) ==
    [type |-> "BinaryExpression", operator |-> operator_, lhs |-> lhs, rhs |-> rhs]

CallExpression(callee, args) ==
    [type |-> "CallExpression", callee |-> callee, args |-> args]

Null == [type |-> "Null"]

Prototype(name, args) == [type |-> "Prototype", name |-> name, args |-> args]

Function(prototype, body) ==
    [type |-> "Function", prototype |-> prototype, body |-> body]

(***************************************************************************)
(* The Parser's state p is [current_token, source].  A parsing function    *)
(* returns [st, val, p]: st = "some" with the value, "none" (Option::None) *)
(* or "panic"; p is the Parser it leaves behind.                           *)
(***************************************************************************)
Parser(tok, src) == [current_token |-> tok, source |-> src]

Some(val, p) == [st |-> "some", val |-> val, p |-> p]

None(p) == [st |-> "none", val |-> Null, p |-> p]

Panic(p) == [st |-> "panic", val |-> Null, p |-> p]

IsOther(p, text) ==
    p.current_token.type = "Other" /\ p.current_token.text = text

\* what a tokenize call that returned t makes of the Parser p
Fetched(t, p) ==
    IF t.st = "panic" THEN Panic(p) ELSE Some(t.tok, Parser(t.tok, t.rest))

\* Parser::new: the first token is read on construction
new(string) == Fetched(tokenize(string), Parser(NoToken, string))

get_next_token(p) == Fetched(tokenize(p.source), p)

\* `match ... { Some(x) => x, _ => return None }`, and a panic in the callee:
\* go on with the callee's result when it is Some, else return what it returned
AndThen(r, Continue(_)) == IF r.st = "some" THEN Continue(r) ELSE r

parse_number_expression(p) ==
    IF p.current_token.type = "Number" THEN
      AndThen(get_next_token(p), LAMBDA n :
        Some(NumberExpression(p.current_token.value), n.p))
    ELSE None(p)

\* Option<Operator>: "NoOperator" is None
operator(token) ==
    CASE token = "+" -> "Plus"
      [] token = "-" -> "Minus"
      [] token = "/" -> "Divide"
      [] token = "*" -> "Multiply"
      [] OTHER -> "NoOperator"

token_precedence(o) == IF o \in {"Plus", "Minus"} THEN 20 ELSE 30

\* expect("Expected an operator") panics on a symbol that is no operator
get_token_precedence(p) ==
    IF p.current_token.type = "Other" THEN
      IF operator(p.current_token.text) = "NoOperator" THEN Panic(p)
      ELSE Some(token_precedence(operator(p.current_token.text)), p)
    ELSE Some(0, p)

\* parser.rs 113-117: the operator of the current token; expect panics on None
binary_operation(p) ==
    operator(IF p.current_token.type = "Other" THEN p.current_token.text ELSE "")

RECURSIVE parse_binary_op_rhs(_, _, _), parse_call_arguments(_, _, _),
          parse_identifier_expression(_), parse_primary(_),
          parse_expression(_), parse_parenthesis_expression(_)

\* the body of `loop` ends in `return`: it runs once
parse_binary_op_rhs(expression_precedence, lhs, p) ==
    AndThen(get_token_precedence(p), LAMBDA tp :
      IF tp.val < expression_precedence THEN Some(lhs, p)
      ELSE IF binary_operation(p) = "NoOperator" THEN Panic(p)
      ELSE
        AndThen(get_next_token(p), LAMBDA n :
        AndThen(parse_primary(n.p), LAMBDA rhs :
        AndThen(get_token_precedence(rhs.p), LAMBDA ntp :
          IF tp.val < ntp.val THEN
            AndThen(parse_binary_op_rhs(tp.val + 1, rhs.val, rhs.p), LAMBDA r :
              Some(BinaryExpression(binary_operation(p), lhs, r.val), r.p))
          ELSE Some(BinaryExpression(binary_operation(p), lhs, rhs.val), rhs.p)))))

\* parser.rs 152-172: the argument loop and what follows it
parse_call_arguments(identifier, args, p) ==
    AndThen(parse_expression(p), LAMBDA arg :
      IF IsOther(arg.p, ")") THEN
        AndThen(get_next_token(arg.p), LAMBDA n :
          Some(CallExpression(identifier, Append(args, arg.val)), n.p))
      ELSE IF arg.p.current_token.type = "Other" /\ ~IsOther(arg.p, ",")
      THEN None(arg.p)
      ELSE
        AndThen(get_next_token(arg.p), LAMBDA n :
          parse_call_arguments(identifier, Append(args, arg.val), n.p)))

parse_identifier_expression(p) ==
    IF p.current_token.type = "Identifier" THEN
      AndThen(get_next_token(p), LAMBDA n :
        IF n.p.current_token.type = "Other" THEN
          IF ~IsOther(n.p, "(")
          THEN Some(VariableExpression(p.current_token.name), n.p)
          ELSE
            AndThen(get_next_token(n.p), LAMBDA m :
              parse_call_arguments(p.current_token.name, <<>>, m.p))
        ELSE None(n.p))
    ELSE None(p)

parse_primary(p) ==
    CASE p.current_token.type = "Identifier" -> parse_identifier_expression(p)
      [] p.current_token.type = "Number" -> parse_number_expression(p)
      [] p.current_token.type = "Other" ->
           IF IsOther(p, "(") THEN parse_parenthesis_expression(p) ELSE None(p)
      [] OTHER -> None(p)

parse_expression(p) ==
    AndThen(parse_primary(p), LAMBDA lhs : parse_binary_op_rhs(1, lhs.val, lhs.p))

parse_parenthesis_expression(p) ==
    IF p.current_token.type = "Other" THEN
      AndThen(get_next_token(p), LAMBDA n :
      AndThen(parse_expression(n.p), LAMBDA value :
        IF value.p.current_token.type = "Other" THEN
          IF ~IsOther(value.p, ")") THEN None(value.p)
          ELSE AndThen(get_next_token(value.p), LAMBDA m : Some(value.val, m.p))
        ELSE Some(value.val, value.p)))
    ELSE None(p)

\* parser.rs 190-192: `while let Identifier(arg) = self.get_next_token()`
RECURSIVE parse_prototype_arguments(_, _)
parse_prototype_arguments(argument_names, p) ==
    AndThen(get_next_token(p), LAMBDA n :
      IF n.p.current_token.type = "Identifier"
      THEN parse_prototype_arguments(Append(argument_names, n.p.current_token.name), n.p)
      ELSE Some(argument_names, n.p))

parse_prototype(p) ==
    IF p.current_token.type = "Identifier" THEN
      AndThen(get_next_token(p), LAMBDA n :
        IF n.p.current_token.type = "Other" THEN
          IF ~IsOther(n.p, "(") THEN None(n.p)
          ELSE
            AndThen(parse_prototype_arguments(<<>>, n.p), LAMBDA a :
              IF a.p.current_token.type = "Other" THEN
                IF ~IsOther(a.p, ")") THEN None(a.p)
                ELSE
                  AndThen(get_next_token(a.p), LAMBDA m :
                    Some(Prototype(p.current_token.name, a.val), m.p))
              ELSE Some(Prototype(p.current_token.name, a.val), a.p))
        ELSE None(n.p))
    ELSE None(p)

parse_definition(p) ==
    AndThen(get_next_token(p), LAMBDA n :
    AndThen(parse_prototype(n.p), LAMBDA prototype :
    AndThen(parse_expression(prototype.p), LAMBDA body :
      Some(Function(prototype.val, body.val), body.p))))

parse_top_level_expression(p) ==
    AndThen(parse_expression(p), LAMBDA body :
      Some(Function(Prototype(<<"_", "_", "a", "n", "o", "n", "_", "e", "x", "p", "r">>,
                              <<>>), body.val), body.p))

parse_extern(p) ==
    AndThen(get_next_token(p), LAMBDA n : parse_prototype(n.p))

(***************************************************************************)
(* Inputs: every text up to a length over a small alphabet, and the texts  *)
(* of the repository's tests and of the specification's examples.          *)
(***************************************************************************)
Texts(chars, n) == UNION {[1..k -> chars] : k \in 0..n}

LexChars == {"d", "e", "f", " ", "\n", "#", "+", "1", "."}

LexExamples ==
    { <<"1", ".", "4", "5">>,
      <<"1", ".", "2", ".", "3">>,
      <<"i", "d", "e", "n", "t">>,
      <<"e", "x", "t", "e", "r", "n">>,
      <<"{", "}", " ", "t", "e", "s", "t">>,
      <<"x", "+", "y">>,
      <<"#", "a", "\r", "b", "2", " ", "#">> }

LexInputs == Texts(LexChars, MaxLexLen) \cup LexExamples

ParseChars == {"a", "1", "+", "*", "(", ")", ","}

ParseExamples ==
    { <<"a", "+", "b", "*", "c">>,
      <<"a", "+", "b", "-", "c">>,
      <<"1", "+", "2", "-", "3">>,
      <<"1", "+", "2", "*", "3">>,
      <<"(", "1", "+", "2", ")">>,
      <<"f", "o", "o", "(", "1", ",", " ", "2", ")">>,
      <<"f", "o", "o", "(", "1", " ", "2", ")">>,
      <<"d", "e", "f", " ", "f", "o", "o", "(", "a", " ", "b", ")", " ",
        "a", "+", "b">>,
      <<"e", "x", "t", "e", "r", "n", " ", "f", "(", "a", ")">>,
      <<"(", "1", "+", "2">>,
      <<"f", "(", "a", " ", "b", ")", "1">>,
      <<"1", ".", "2", ".", "3">> }

ParseInputs == Texts(ParseChars, MaxLen) \cup ParseExamples

\* arguments tried for parse_binary_op_rhs
Precedences == {0, 1, 21, 31}

Operands == {NumberExpression(parse_f64(<<"7">>)), VariableExpression(<<"v">>)}

(***************************************************************************)
(* The state machine.  pc: "new" (a Tokenizer on the text, the Parser not  *)
(* yet built), "ready", "aborted" (the process panicked).  op and result   *)
(* are the last operation and what it returned; prev is the Parser that    *)
(* operation started from.                                                 *)
(***************************************************************************)
NoOp == [name |-> "none", args |-> <<>>]

NoResult == [st |-> "none", val |-> Null]

Call(name, args) == [name |-> name, args |-> args]

\* the Parser after operation o returned r
Returns(o, r) ==
    /\ pc = "ready"
    /\ op' = o
    /\ prev' = Parser(current_token, source)
    /\ result' = [st |-> r.st, val |-> r.val]
    /\ pc' = IF r.st = "panic" THEN "aborted" ELSE "ready"
    /\ current_token' = r.p.current_token
    /\ source' = r.p.source
    /\ UNCHANGED <<input, tokens>>

Init ==
    /\ input \in ParseInputs
    /\ source = input
    /\ current_token = NoToken
    /\ pc = "new"
    /\ op = NoOp
    /\ prev = Parser(NoToken, input)
    /\ result = NoResult
    /\ tokens = <<>>

New ==
    /\ pc = "new"
    /\ LET r == new(source) IN
       /\ op' = Call("new", <<>>)
       /\ prev' = Parser(current_token, source)
       /\ result' = [st |-> r.st, val |-> r.val]
       /\ pc' = IF r.st = "panic" THEN "aborted" ELSE "ready"
       /\ current_token' = r.p.current_token
       /\ source' = r.p.source
    /\ UNCHANGED <<input, tokens>>

GetNextToken ==
    Returns(Call("get_next_token", <<>>), get_next_token(Parser(current_token, source)))

ParseNumberExpression ==
    Returns(Call("parse_number_expression", <<>>),
            parse_number_expression(Parser(current_token, source)))

GetTokenPrecedence ==
    Returns(Call("get_token_precedence", <<>>),
            get_token_precedence(Parser(current_token, source)))

ParseBinaryOpRhs ==
    \E expression_precedence \in Precedences, lhs \in Operands :
      Returns(Call("parse_binary_op_rhs", <<expression_precedence, lhs>>),
              parse_binary_op_rhs(expression_precedence, lhs,
                                  Parser(current_token, source)))

ParseIdentifierExpression ==
    Returns(Call("parse_identifier_expression", <<>>),
            parse_identifier_expression(Parser(current_token, source)))

ParsePrototype ==
    Returns(Call("parse_prototype", <<>>), parse_prototype(Parser(current_token, source)))

ParseDefinition ==
    Returns(Call("parse_definition", <<>>), parse_definition(Parser(current_token, source)))

ParseTopLevelExpression ==
    Returns(Call("parse_top_level_expression", <<>>),
            parse_top_level_expression(Parser(current_token, source)))

ParseExtern ==
    Returns(Call("parse_extern", <<>>), parse_extern(Parser(current_token, source)))

ParsePrimary ==
    Returns(Call("parse_primary", <<>>), parse_primary(Parser(current_token, source)))

ParseExpression ==
    Returns(Call("parse_expression", <<>>), parse_expression(Parser(current_token, source)))

ParseParenthesisExpression ==
    Returns(Call("parse_parenthesis_expression", <<>>),
            parse_parenthesis_expression(Parser(current_token, source)))

Next ==
    \/ New
    \/ GetNextToken
    \/ ParseNumberExpression
    \/ GetTokenPrecedence
    \/ ParseBinaryOpRhs
    \/ ParseIdentifierExpression
    \/ ParsePrototype
    \/ ParseDefinition
    \/ ParseTopLevelExpression
    \/ ParseExtern
    \/ ParsePrimary
    \/ ParseExpression
    \/ ParseParenthesisExpression

Spec == Init /\ [][Next]_vars

(***************************************************************************)
(* The Tokenizer on its own: Tokenizer::new(text), then successive         *)
(* tokenize calls; tokens is the sequence of what they returned.           *)
(***************************************************************************)
InitLex ==
    /\ input \in LexInputs
    /\ source = input
    /\ current_token = NoToken
    /\ pc = "ready"
    /\ op = NoOp
    /\ prev = Parser(NoToken, input)
    /\ result = NoResult
    /\ tokens = <<>>

Tokenize ==
    /\ pc = "ready"
    /\ Len(tokens) < MaxCalls
    /\ LET t == tokenize(source) IN
       /\ op' = Call("tokenize", <<>>)
       /\ result' = [st |-> t.st, val |-> t.tok]
       /\ pc' = IF t.st = "panic" THEN "aborted" ELSE "ready"
       /\ source' = t.rest
       /\ tokens' = IF t.st = "panic" THEN tokens ELSE Append(tokens, t.tok)
    /\ prev' = Parser(NoToken, source)
    /\ UNCHANGED <<input, current_token>>

NextLex == Tokenize

SpecLex == InitLex /\ [][NextLex]_vars

(***************************************************************************)
(* Vocabulary of the properties.                                           *)
(***************************************************************************)
\* the Parser (or Tokenizer) as the last operation left it
Post == Parser(current_token, source)

IsPrimaryToken(t) == t.type \in {"Identifier", "Number"}

\* the expression a primary token stands for
PrimaryOf(t) ==
    IF t.type = "Number" THEN NumberExpression(t.value) ELSE VariableExpression(t.name)

IsSymbol(t, text) == t.type = "Other" /\ t.text = text

\* the precedence table of the specification: + - 20, * / 30, anything else 0
SpecPrecedence(t) ==
    IF t.type # "Other" THEN 0
    ELSE IF t.text \in {"+", "-"} THEN 20
    ELSE IF t.text \in {"*", "/"} THEN 30
    ELSE 0

SpecOperator(t) ==
    CASE t.text = "+" -> "Plus" [] t.text = "-" -> "Minus"
      [] t.text = "*" -> "Multiply" [] t.text = "/" -> "Divide"

\* the tokens a Parser has yet to see: its current token, then what its
\* Tokenizer yields, up to and including Eof (or NoToken where the Tokenizer
\* panics)
RECURSIVE StreamOf(_)
StreamOf(src) ==
    LET t == tokenize(src) IN
    IF t.st = "panic" THEN <<NoToken>>
    ELSE IF t.tok.type = "Eof" THEN <<Eof>>
    ELSE <<t.tok>> \o StreamOf(t.rest)

TokenStream(p) ==
    IF p.current_token.type \in {"Eof", "NoToken"} THEN <<p.current_token>>
    ELSE <<p.current_token>> \o StreamOf(p.source)

\* x o1 y o2 z Eof, with x, y, z primary tokens and o1, o2 operators
IsTwoOperatorChain(ts) ==
    /\ Len(ts) = 6
    /\ IsPrimaryToken(ts[1]) /\ IsPrimaryToken(ts[3]) /\ IsPrimaryToken(ts[5])
    /\ SpecPrecedence(ts[2]) > 0 /\ SpecPrecedence(ts[4]) > 0
    /\ ts[6].type = "Eof"

\* C1: parse_expression on `x + y * z` (a precedence 20 operator, then a
\* precedence 30 operator, x, y, z variables or numbers) returns
\* BinaryExpr(first, x, BinaryExpr(second, y, z)).
\* Fails on "a+b*c": the code returns None, because the identifier c is
\* followed by Eof (see C4).
C1_PrecedenceGrouping ==
    LET ts == TokenStream(prev) IN
    (/\ op.name = "parse_expression"
     /\ IsTwoOperatorChain(ts)
     /\ SpecPrecedence(ts[2]) = 20 /\ SpecPrecedence(ts[4]) = 30)
    => /\ result.st = "some"
       /\ result.val =
            BinaryExpression(SpecOperator(ts[2]), PrimaryOf(ts[1]),
              BinaryExpression(SpecOperator(ts[4]), PrimaryOf(ts[3]), PrimaryOf(ts[5])))

\* C2: parse_expression on a chain `x o1 y o2 z` of operators of equal
\* precedence consumes the whole chain and returns
\* BinaryExpr(o2, BinaryExpr(o1, x, y), z), leaving no operator in current_token.
\* Fails on "1+2-3": the code returns BinaryExpr(Plus, 1, 2) with `-` left in
\* current_token (the loop body ends in return).
C2_LeftAssociativity ==
    LET ts == TokenStream(prev) IN
    (/\ op.name = "parse_expression"
     /\ IsTwoOperatorChain(ts)
     /\ SpecPrecedence(ts[2]) = SpecPrecedence(ts[4]))
    => /\ result.st = "some"
       /\ result.val =
            BinaryExpression(SpecOperator(ts[4]),
              BinaryExpression(SpecOperator(ts[2]), PrimaryOf(ts[1]), PrimaryOf(ts[3])),
              PrimaryOf(ts[5]))
       /\ current_token.type = "Eof"

\* f ( a1 , ... , an ) with n >= 1 primary tokens as arguments, then a token
IsSimpleCall(ts, n) ==
    /\ Len(ts) >= 2 * n + 3
    /\ ts[1].type = "Identifier"
    /\ IsSymbol(ts[2], "(")
    /\ \A i \in 1..n :
         /\ IsPrimaryToken(ts[2 * i + 1])
         /\ IsSymbol(ts[2 * i + 2], IF i < n THEN "," ELSE ")")
    /\ ts[2 * n + 3].type # "NoToken"

\* C3: parse_identifier_expression on `f(e1, ..., en)` returns
\* CallExpr{callee: f, args: [e1, ..., en]} in source order and leaves
\* current_token at the token after `)` (stated for arguments that are single
\* variables or numbers).
\* Fails on "foo(1, 2)": the code panics in get_token_precedence on `,`
\* (see C10).
C3_CallParsing ==
    LET ts == TokenStream(prev) IN
    \A n \in 1..((Len(ts) - 1) \div 2) :
      (op.name = "parse_identifier_expression" /\ IsSimpleCall(ts, n))
      => /\ result.st = "some"
         /\ result.val =
              CallExpression(ts[1].name, [i \in 1..n |-> PrimaryOf(ts[2 * i + 1])])
         /\ current_token = ts[2 * n + 3]

\* C4: with current_token = Identifier(name) and a next token other than
\* Symbol("("), parse_identifier_expression and parse_primary consume exactly
\* the identifier and return VariableExpr(name).
\* Fails on "a": the next token is Eof, not a symbol, and the code returns None.
C4_VariableReference ==
    LET next == tokenize(prev.source) IN
    (/\ op.name \in {"parse_identifier_expression", "parse_primary"}
     /\ prev.current_token.type = "Identifier"
     /\ next.st = "tok"
     /\ ~IsSymbol(next.tok, "("))
    => /\ result.st = "some"
       /\ result.val = VariableExpression(prev.current_token.name)
       /\ Post = Parser(next.tok, next.rest)

\* C5: parse_parenthesis_expression fails whenever the token after the inner
\* expression is not `)`, and returns the inner expression only when `)` is
\* there and has been consumed.
\* Fails on "(1+2": the token after the inner expression is Eof and the code
\* returns Some(1+2).
C5_UnmatchedParenthesis ==
    LET open == get_next_token(prev)
        inner == parse_expression(open.p)
    IN
    (/\ op.name = "parse_parenthesis_expression"
     /\ IsSymbol(prev.current_token, "(")
     /\ open.st = "some"
     /\ inner.st = "some")
    => /\ ~IsSymbol(inner.p.current_token, ")") => result.st = "none"
       /\ result.st = "some" =>
            /\ IsSymbol(inner.p.current_token, ")")
            /\ result.val = inner.val
            /\ get_next_token(inner.p).p = Post

\* Identifier ( Identifier* ) with n parameters
IsPrototype(ts, n) ==
    /\ Len(ts) >= n + 3
    /\ ts[1].type = "Identifier"
    /\ IsSymbol(ts[2], "(")
    /\ \A i \in 1..n : ts[2 + i].type = "Identifier"
    /\ IsSymbol(ts[3 + n], ")")

\* C6: parse_prototype returns a Prototype only for Identifier `(`
\* Identifier* `)`, with exactly those parameters in order, and a failure for
\* every other token sequence.
\* Fails on "f(a": the parameter list is ended by Eof and the code returns
\* Prototype{f, [a]}.
C6_MalformedPrototype ==
    LET ts == TokenStream(prev) IN
    (op.name = "parse_prototype" /\ result.st # "panic")
    => /\ \A n \in 0..Len(ts) :
            IsPrototype(ts, n) =>
              /\ result.st = "some"
              /\ result.val = Prototype(ts[1].name, [i \in 1..n |-> ts[2 + i].name])
       /\ (\A n \in 0..Len(ts) : ~IsPrototype(ts, n)) => result.st = "none"

\* C7: in a call's argument list, a token after an argument that is neither
\* `,` nor `)` makes parse_identifier_expression fail at that token: it is not
\* skipped and no further argument is parsed (stated for the first argument).
\* Fails on "foo(1 2)": the code skips the 2 and goes on to parse `)` as an
\* argument.
C7_MissingSeparator ==
    LET name == get_next_token(prev)
        open == get_next_token(name.p)
        arg == parse_expression(open.p)
    IN
    (/\ op.name = "parse_identifier_expression"
     /\ prev.current_token.type = "Identifier"
     /\ name.st = "some" /\ IsSymbol(name.p.current_token, "(")
     /\ open.st = "some"
     /\ arg.st = "some"
     /\ ~IsSymbol(arg.p.current_token, ",")
     /\ ~IsSymbol(arg.p.current_token, ")"))
    => /\ result.st = "none"
       /\ Post = arg.p

(***************************************************************************)
(* The reference tokenization of a text s, by position.                    *)
(***************************************************************************)
\* position i is in a comment: a `#` at or before it, no line end in between
InComment(s, i) ==
    \E j \in 1..i : s[j] = "#" /\ \A k \in j..i : s[k] \notin {"\r", "\n"}

Visible(s, i) == ~InComment(s, i) /\ s[i] \notin Whitespace

\* position i is in an alphanumeric run that starts with a letter
InRun(s, i) ==
    /\ Visible(s, i)
    /\ \E j \in 1..i :
         /\ s[j] \in Letters
         /\ \A k \in j..i : Visible(s, k) /\ s[k] \in Letters \cup Digits

\* a lexical unit starts at position i
UnitStart(s, i) ==
    /\ Visible(s, i)
    /\ InRun(s, i) => (i = 1 \/ ~InRun(s, i - 1))

\* the last position of the run that starts at i
RunEnd(s, i) ==
    CHOOSE j \in i..Len(s) :
      /\ \A k \in i..j : InRun(s, k)
      /\ j = Len(s) \/ ~InRun(s, j + 1)

RefToken(s, i) ==
    IF InRun(s, i) THEN
      LET run == SubSeq(s, i, RunEnd(s, i)) IN
      CASE run = <<"d", "e", "f">> -> [type |-> "Def"]
        [] run = <<"e", "x", "t", "e", "r", "n">> -> [type |-> "Extern"]
        [] OTHER -> [type |-> "Identifier", name |-> run]
    ELSE [type |-> "Other", text |-> s[i]]

\* the k-th smallest element of a set of numbers
Nth(S, k) == CHOOSE i \in S : Cardinality({j \in S : j < i}) = k - 1

RefTokens(s) ==
    LET starts == {i \in 1..Len(s) : UnitStart(s, i)} IN
    [k \in 1..Cardinality(starts) |-> RefToken(s, Nth(starts, k))]

\* the text has no number: every digit outside a comment is in a run that
\* starts with a letter
NoNumber(s) == \A i \in 1..Len(s) : (Visible(s, i) /\ s[i] \in Digits) => InRun(s, i)

\* the first position outside whitespace and comments, 0 if there is none
FirstVisible(s) ==
    IF \E i \in 1..Len(s) : Visible(s, i)
    THEN CHOOSE i \in 1..Len(s) : Visible(s, i) /\ \A j \in 1..(i - 1) : ~Visible(s, j)
    ELSE 0

\* the maximal run of digits and decimal points that starts at i
DigitRun(s, i) ==
    SubSeq(s, i, CHOOSE j \in i..Len(s) :
                   /\ \A k \in i..j : s[k] \in Digits \cup {"."}
                   /\ j = Len(s) \/ s[j + 1] \notin Digits \cup {"."})

Points(run) == Cardinality({i \in 1..Len(run) : run[i] = "."})

\* C8: when the next lexical unit is a digit / decimal point run, tokenize
\* returns NumberLiteral of the run if it has at most one `.`, and an error
\* value (MalformedNumber) if it has a second `.`; it never aborts the process.
\* Fails on "1.2.3": the code panics ("Multiple decimals").
C8_MalformedNumber ==
    op.name = "tokenize" =>
      /\ result.st # "panic"
      /\ LET s == prev.source
             i == FirstVisible(s)
         IN
         (i > 0 /\ s[i] \in Digits) =>
           IF Points(DigitRun(s, i)) <= 1
           THEN result = [st |-> "tok", val |-> Number(parse_f64(DigitRun(s, i)))]
           ELSE result.st = "error"

\* C9: on a text without numbers, the results of the successive tokenize
\* calls are the reference tokenization in source order (whitespace and
\* comments yield nothing, a run is Def / Extern / Identifier(run), any other
\* character one Symbol), then Eof on every later call; no call aborts.
C9_TokenStream ==
    LET ref == RefTokens(input) IN
    NoNumber(input) =>
      /\ pc # "aborted"
      /\ \A k \in 1..Len(tokens) : tokens[k] = IF k <= Len(ref) THEN ref[k] ELSE Eof

\* C9 happens: a text with a comment, an identifier and a symbol has been
\* tokenized to its end and past it
C9_Witness ==
    /\ NoNumber(input)
    /\ \E i \in 1..Len(input) : input[i] = "#"
    /\ \E k \in 1..Len(tokens) : tokens[k].type = "Identifier"
    /\ \E k \in 1..Len(tokens) : tokens[k].type = "Other"
    /\ Len(tokens) >= Len(RefTokens(input)) + 2
    /\ tokens[Len(tokens)] = Eof

\* C10: get_token_precedence returns 20 for + and -, 30 for * and /, and 0
\* for every other token without aborting, so that parse_binary_op_rhs with a
\* minimum precedence >= 1 on a token that is no operator returns its lhs and
\* consumes nothing.
\* Fails with current_token = Symbol("("): operator("(") is None and expect
\* panics.
C10_PrecedenceTotal ==
    /\ op.name = "get_token_precedence" =>
         /\ result = [st |-> "some", val |-> SpecPrecedence(prev.current_token)]
         /\ Post = prev
    /\ (/\ op.name = "parse_binary_op_rhs"
        /\ op.args[1] >= 1
        /\ SpecPrecedence(prev.current_token) = 0)
       => /\ result = [st |-> "some", val |-> op.args[2]]
          /\ Post = prev

====
